---- MODULE Spec2Model ----
(***************************************************************************)
(* Model of the Metasploit MCP server: its start (server.py), the RPC      *)
(* client (client.py) and the tools built on it (tools.py).  One           *)
(* MetasploitClient object, msf_client,                                    *)
(* is shared by every tool invocation of the process.  The remote RPC      *)
(* service is an opaque responder: every reply is drawn from RemoteReplies.*)
(***************************************************************************)
EXTENDS Integers, Sequences, FiniteSets, TLC

VARIABLES environ, host, token, loop, pc, frame, rpc, sent, ret, files, dirs

vars == <<environ, host, token, loop, pc, frame, rpc, sent, ret, files, dirs, environ, host>>

(***************************************************************************)
(* Bounds.                                                                 *)
(***************************************************************************)
NumTasks == 2

Tasks == 1..NumTasks

(***************************************************************************)
(* JSON / Python values.  Every value is a record with one field naming    *)
(* its type: dict (a function from keys to values), list (a sequence),     *)
(* str, num, null (Python None).                                           *)
(***************************************************************************)
JStr(s) == [str |-> s]

\* A str whose characters are modelled: a sequence of characters.
JText(chars) == [text |-> chars]

JNum(n) == [num |-> n]

JNull == [null |-> TRUE]

JList(q) == [list |-> q]

JDict(f) == [dict |-> f]

EmptyDict == JDict(<<>>)

IsDict(v) == DOMAIN v = {"dict"}

IsList(v) == DOMAIN v = {"list"}

IsStr(v) == DOMAIN v = {"str"}

IsText(v) == DOMAIN v = {"text"}

IsNum(v) == DOMAIN v = {"num"}

IsNull(v) == DOMAIN v = {"null"}

\* Python truth value of a value: None, "", 0 and empty containers are false.
Truthy(v) ==
  IF IsNull(v) THEN FALSE
  ELSE IF IsStr(v) THEN v.str # ""
  ELSE IF IsText(v) THEN Len(v.text) > 0
  ELSE IF IsNum(v) THEN v.num # 0
  ELSE IF IsList(v) THEN Len(v.list) > 0
  ELSE DOMAIN v.dict # {}

\* Outcome of a Python expression: a value, or a raised exception.
Val(v) == [val |-> v]

Raise(e) == [raise |-> e]

Raised(o) == DOMAIN o = {"raise"}

\* key in v : membership for dict and list, TypeError for None and numbers.
\* (No reply of the model carries a str where a container is expected.)
PyIn(key, v) ==
  IF IsDict(v) THEN Val(key \in DOMAIN v.dict)
  ELSE IF IsList(v) THEN Val(\E i \in 1..Len(v.list) : v.list[i] = JStr(key))
  ELSE Raise("TypeError")

\* v[key] with a str key.
PyGetItem(v, key) ==
  IF IsDict(v)
    THEN IF key \in DOMAIN v.dict THEN Val(v.dict[key]) ELSE Raise("KeyError")
    ELSE Raise("TypeError")

\* v.get(key, default) : only dict has the method.
PyGet(v, key, default) ==
  IF IsDict(v)
    THEN Val(IF key \in DOMAIN v.dict THEN v.dict[key] ELSE default)
    ELSE Raise("AttributeError")

(***************************************************************************)
(* json.loads on the additional_options string.  The string is modelled    *)
(* after lexing, as a sequence of tokens: punctuation P(c) and the scalar  *)
(* literals (a JStr, JNum or JNull value).  ParseValue is the recursive    *)
(* descent of the JSON grammar; it returns [ok, val, next].                *)
(***************************************************************************)
P(c) == [p |-> c]

IsP(tok, c) == DOMAIN tok = {"p"} /\ tok.p = c

IsScalarTok(tok) == DOMAIN tok # {"p"}

ParseFail == [ok |-> FALSE]

ParseOk(v, n) == [ok |-> TRUE, val |-> v, next |-> n]

RECURSIVE ParseValue(_, _)

RECURSIVE ParseMembers(_, _, _)

RECURSIVE ParseElements(_, _, _)

\* members of an object after "{" or ",": string ":" value, then "," or "}".
\* A repeated key keeps the last value, as Python's dict does.
ParseMembers(toks, i, acc) ==
  IF i + 1 > Len(toks) \/ ~IsStr(toks[i]) \/ ~IsP(toks[i + 1], ":") THEN ParseFail
  ELSE LET v == ParseValue(toks, i + 2) IN
    IF ~v.ok \/ v.next > Len(toks) THEN ParseFail
    ELSE LET acc2 == (toks[i].str :> v.val) @@ acc IN
      IF IsP(toks[v.next], "}") THEN ParseOk(JDict(acc2), v.next + 1)
      ELSE IF IsP(toks[v.next], ",") THEN ParseMembers(toks, v.next + 1, acc2)
      ELSE ParseFail

\* elements of an array after "[" or ",": value, then "," or "]".
ParseElements(toks, i, acc) ==
  LET v == ParseValue(toks, i) IN
    IF ~v.ok \/ v.next > Len(toks) THEN ParseFail
    ELSE IF IsP(toks[v.next], "]") THEN ParseOk(JList(Append(acc, v.val)), v.next + 1)
    ELSE IF IsP(toks[v.next], ",") THEN ParseElements(toks, v.next + 1, Append(acc, v.val))
    ELSE ParseFail

ParseValue(toks, i) ==
  IF i > Len(toks) THEN ParseFail
  ELSE IF IsScalarTok(toks[i]) THEN ParseOk(toks[i], i + 1)
  ELSE IF IsP(toks[i], "{") THEN
    IF i + 1 <= Len(toks) /\ IsP(toks[i + 1], "}") THEN ParseOk(EmptyDict, i + 2)
    ELSE ParseMembers(toks, i + 1, <<>>)
  ELSE IF IsP(toks[i], "[") THEN
    IF i + 1 <= Len(toks) /\ IsP(toks[i + 1], "]") THEN ParseOk(JList(<<>>), i + 2)
    ELSE ParseElements(toks, i + 1, <<>>)
  ELSE ParseFail

\* json.loads(s): the value, or JSONDecodeError (also on trailing data).
JsonLoads(toks) ==
  LET v == ParseValue(toks, 1) IN
    IF v.ok /\ v.next = Len(toks) + 1 THEN Val(v.val) ELSE Raise("JSONDecodeError")

(***************************************************************************)
(* dict.update(other).  A mapping is merged key by key, its values         *)
(* replacing the present ones.  Any other iterable is read as a sequence   *)
(* of key/value pairs: every element must itself be an iterable of length  *)
(* 2 (a dict element iterates its keys); None and numbers are not          *)
(* iterable, a str iterates to one-character strings.  The str literals of *)
(* the model are never of length 2, and list keys are unhashable.          *)
(***************************************************************************)
PairOf(e) ==
  IF IsList(e) THEN
    IF Len(e.list) # 2 THEN Raise("ValueError")
    ELSE IF IsStr(e.list[1]) THEN Val(<<e.list[1].str, e.list[2]>>)
    ELSE Raise("TypeError")
  ELSE IF IsStr(e) THEN Raise("ValueError")
  ELSE IF IsDict(e) THEN Raise("ValueError")
  ELSE Raise("TypeError")

RECURSIVE UpdateFromPairs(_, _, _)

UpdateFromPairs(options, q, i) ==
  IF i > Len(q) THEN Val(options)
  ELSE LET kv == PairOf(q[i]) IN
    IF Raised(kv) THEN kv
    ELSE UpdateFromPairs((kv.val[1] :> kv.val[2]) @@ options, q, i + 1)

\* dict.update with the present values kept (setdefault for every key).
DictUpdateKeepPresent(options, other) ==
  IF IsDict(other) THEN Val(options @@ other.dict)
  ELSE IF IsList(other) THEN UpdateFromPairs(options, other.list, 1)
  ELSE IF IsStr(other) THEN (IF other.str = "" THEN Val(options) ELSE Raise("ValueError"))
  ELSE Raise("TypeError")

DictUpdate(options, other) ==
  IF IsDict(other) THEN Val(other.dict @@ options)
  ELSE IF IsList(other) THEN UpdateFromPairs(options, other.list, 1)
  ELSE IF IsStr(other) THEN (IF other.str = "" THEN Val(options) ELSE Raise("ValueError"))
  ELSE Raise("TypeError")

(***************************************************************************)
(* The remote service.  A reply is a transport failure [exc], raised by    *)
(* session.post, or an HTTP response [status, body]; the body is Malformed *)
(* (response.json() raises) or a JSON value.                               *)
(***************************************************************************)
Malformed == [bad |-> TRUE]

TransportError(detail) == [exc |-> detail]

Http(status, body) == [status |-> status, body |-> body]

IsTransportError(reply) == "exc" \in DOMAIN reply

Result(v) == JDict([result |-> v])

RemoteReplies ==
  << Http(200, Result(JDict([token |-> JStr("t1")]))),
     TransportError("Connection refused"),
     Http(401, Malformed),
     Http(201, Result(EmptyDict)),
     Http(200, Malformed),
     Http(200, Result(JDict([token |-> JStr("t2")]))),
     Http(200, Result(JDict([token |-> JStr("")]))),
     Http(200, JDict([error |-> JStr("Invalid Authentication Token")])),
     Http(200, Result(JDict([status |-> JStr("exploitable")]))),
     Http(200, Result(JDict([status |-> JStr("unknown")]))),
     Http(200, Result(JNull)),
     Http(200, JList(<<>>)),
     Http(200, JNull),
     Http(200, Result(JDict(("1" :> JDict([type |-> JStr("shell")]))
                            @@ ("2" :> JDict([id |-> JStr("9"), type |-> JStr("meterpreter")]))))),
     Http(200, Result(JDict([data |-> JStr("QUJD")]))),
     Http(200, Result(JList(<<JText(<<"W", "i", "n", "/", "S", "M", "B">>),
                              JText(<<"u", "n", "i", "x", "/", "f", "t", "p">>),
                              JText(<<"w", "i", "n", "/", "x", "6", "4">>)>>))) >>

\* response.json()
ResponseJson(reply) ==
  IF reply.body = Malformed THEN Raise("JSONDecodeError") ELSE Val(reply.body)

(***************************************************************************)
(* client.py: MetasploitClient.                                            *)
(***************************************************************************)
\* os.getenv("MSF_RPC_PASSWORD", ""), read when msf_client is constructed.
rpc_password == IF IsNull(environ) THEN "" ELSE environ.str

\* The login request of connect(): it never carries a token.
LoginRequest ==
  [jsonrpc |-> "2.0", method |-> "login", params |-> [password |-> rpc_password], id |-> 1]

\* The request of call_rpc with payload["token"] = self.token set always.
PayloadAlwaysToken(method, params, tok) ==
  [jsonrpc |-> "2.0", method |-> method, params |-> params, id |-> 1, token |-> tok]

\* The request of call_rpc: the token is attached when self.token is true.
Payload(method, params, tok) ==
  [jsonrpc |-> "2.0", method |-> method, params |-> params, id |-> 1]
    @@ (IF Truthy(tok) THEN [token |-> tok] ELSE <<>>)

\* The token field of a 200 login reply, or Raise when the reply carries
\* none (any exception and any missing field end in "return False").
LoginToken(reply) ==
  IF IsTransportError(reply) THEN Raise("ConnectionError")
  ELSE IF reply.status # 200 THEN Raise("status")
  ELSE LET result == ResponseJson(reply) IN
    IF Raised(result) THEN result
    ELSE LET hasResult == PyIn("result", result.val) IN
      IF Raised(hasResult) THEN hasResult
      ELSE IF ~hasResult.val THEN Raise("no result")
      ELSE LET inner == PyGetItem(result.val, "result") IN
        IF Raised(inner) THEN inner
        ELSE LET hasToken == PyIn("token", inner.val) IN
          IF Raised(hasToken) THEN hasToken
          ELSE IF ~hasToken.val THEN Raise("no token")
          ELSE PyGetItem(inner.val, "token")

\* connect() without the test for the token field: the token is read with
\* .get("token") from any 200 reply that carries a result.
connectNoTokenTest(tok, reply) ==
  IF IsTransportError(reply) \/ reply.status # 200 \/ reply.body = Malformed
    THEN [ok |-> FALSE, token |-> tok]
  ELSE IF ~IsDict(reply.body) THEN [ok |-> FALSE, token |-> tok]
  ELSE IF "result" \notin DOMAIN reply.body.dict THEN [ok |-> FALSE, token |-> tok]
  ELSE LET t == PyGet(reply.body.dict["result"], "token", JNull) IN
    IF Raised(t) THEN [ok |-> FALSE, token |-> tok] ELSE [ok |-> TRUE, token |-> t.val]

\* connect() that resets self.token to None when the login fails.
connectClearOnFailure(tok, reply) ==
  LET t == LoginToken(reply) IN
    IF Raised(t) THEN [ok |-> FALSE, token |-> JNull]
    ELSE [ok |-> TRUE, token |-> t.val]

\* connect() on a login reply: [ok |-> the value returned, token |-> self.token after].
connect(tok, reply) ==
  LET t == LoginToken(reply) IN
    IF Raised(t) THEN [ok |-> FALSE, token |-> tok]
    ELSE [ok |-> TRUE, token |-> t.val]

ErrorEnvelope(message) == JDict([error |-> JStr(message)])

\* call_rpc with response.ok in place of status_code == 200.
RpcReturnAny2xx(reply) ==
  IF IsTransportError(reply) THEN ErrorEnvelope(reply.exc)
  ELSE IF reply.status >= 200 /\ reply.status < 300 THEN
    LET body == ResponseJson(reply) IN
      IF Raised(body) THEN ErrorEnvelope("Expecting value") ELSE body.val
  ELSE ErrorEnvelope("HTTP " \o ToString(reply.status))

\* The value call_rpc returns for the reply to its command request.
RpcReturn(reply) ==
  IF IsTransportError(reply) THEN ErrorEnvelope(reply.exc)
  ELSE IF reply.status = 200 THEN
    LET body == ResponseJson(reply) IN
      IF Raised(body) THEN ErrorEnvelope("Expecting value") ELSE body.val
  ELSE ErrorEnvelope("HTTP " \o ToString(reply.status))

(***************************************************************************)
(* State.  token is msf_client.token.  Tool invocations are coroutines of  *)
(* one event loop: loop is the task that holds it (0: none).  connect and  *)
(* call_rpc await nothing but each other and session.post is the blocking  *)
(* call of requests, so a coroutine that has started keeps the loop until  *)
(* it returns; the other invocations wait queued.  pc, frame and rpc are a *)
(* task's position, the locals of its tool function and the locals of its  *)
(* call_rpc; sent is the sequence of requests it handed to session.post    *)
(* during the invocation; ret is the tool's return value (the envelope     *)
(* json.dumps encodes).  files and dirs are the file system under the      *)
(* payload directory.  environ is the environment variable                 *)
(* MSF_RPC_PASSWORD of the process (None when it is not set) and host is   *)
(* the place of server.py: "main" before the credential test, "running"    *)
(* inside mcp.run, "exit 1" after sys.exit(1).                             *)
(***************************************************************************)
\* The values of MSF_RPC_PASSWORD a process is started with.
Environ == <<JNull, JStr(""), JStr("s3cret")>>

NoFrame == [tool |-> "none"]

NoRpc == [method |-> "none"]

NoRet == [status |-> "none"]

NotSet == [unset |-> TRUE]

Init ==
  /\ \E i \in 1..Len(Environ) : environ = Environ[i]
  /\ host = "main"
  /\ token = JNull
  /\ loop = 0
  /\ pc = [t \in Tasks |-> "idle"]
  /\ frame = [t \in Tasks |-> NoFrame]
  /\ rpc = [t \in Tasks |-> NoRpc]
  /\ sent = [t \in Tasks |-> <<>>]
  /\ ret = [t \in Tasks |-> NoRet]
  /\ files = <<>>
  /\ dirs = {}

\* server.py main() with the credential test left out.
mainNoTest ==
  /\ host = "main"
  /\ host' = "running"
  /\ UNCHANGED <<environ, token, loop, pc, frame, rpc, sent, ret, files, dirs>>

\* server.py lines 35-46: sys.exit(1) when MSF_RPC_PASSWORD is not set or
\* empty, mcp.run (with any of the transports) otherwise.
main ==
  /\ host = "main"
  /\ host' = IF ~Truthy(environ) THEN "exit 1" ELSE "running"
  /\ UNCHANGED <<environ, token, loop, pc, frame, rpc, sent, ret, files, dirs>>

\* The host receives a tool call for task t; it runs when the loop is free.
Invoke(t) ==
  /\ host = "running"
  /\ pc[t] = "idle"
  /\ pc' = [pc EXCEPT ![t] = "queued"]
  /\ UNCHANGED <<token, loop, frame, rpc, sent, ret, files, dirs, environ, host>>

\* The tool function returns env (the envelope json.dumps encodes).
Finish(t, env, log) ==
  /\ pc' = [pc EXCEPT ![t] = "done"]
  /\ ret' = [ret EXCEPT ![t] = env]
  /\ rpc' = [rpc EXCEPT ![t] = NoRpc]
  /\ sent' = [sent EXCEPT ![t] = log]
  /\ UNCHANGED token

\* The result is delivered to the caller and the loop is free again.
Return(t) ==
  /\ pc[t] = "done"
  /\ pc' = [pc EXCEPT ![t] = "idle"]
  /\ loop' = 0
  /\ frame' = [frame EXCEPT ![t] = NoFrame]
  /\ ret' = [ret EXCEPT ![t] = NoRet]
  /\ sent' = [sent EXCEPT ![t] = <<>>]
  /\ UNCHANGED <<token, rpc, files, dirs, environ, host>>

\* call_rpc that calls connect() on every entry, whatever self.token.
CallRpcAlwaysConnect(t, method, params, cont, log) ==
  /\ rpc' = [rpc EXCEPT ![t] =
       [method |-> method, params |-> params, cont |-> cont, entry |-> token,
        base |-> Len(log), login |-> NotSet, connected |-> NotSet,
        response |-> NotSet, ret |-> NotSet]]
  /\ sent' = [sent EXCEPT ![t] = Append(log, LoginRequest)]
  /\ pc' = [pc EXCEPT ![t] = "connect"]
  /\ UNCHANGED <<token, ret>>

\* call_rpc(method, params) up to its first session.post: the login request
\* of connect() when self.token is false, its own request otherwise.
\* cont is the place of the caller the value returns to.
CallRpc(t, method, params, cont, log) ==
  /\ rpc' = [rpc EXCEPT ![t] =
       [method |-> method, params |-> params, cont |-> cont, entry |-> token,
        base |-> Len(log), login |-> NotSet, connected |-> NotSet,
        response |-> NotSet, ret |-> NotSet]]
  /\ IF ~Truthy(token)
       THEN /\ sent' = [sent EXCEPT ![t] = Append(log, LoginRequest)]
            /\ pc' = [pc EXCEPT ![t] = "connect"]
       ELSE /\ sent' = [sent EXCEPT ![t] = Append(log, Payload(method, params, token))]
            /\ pc' = [pc EXCEPT ![t] = "call_rpc"]
  /\ UNCHANGED <<token, ret>>

\* The login request ends with reply: connect() returns, and call_rpc
\* builds its payload with the token now held and posts it.
ConnectReply(t) ==
  /\ pc[t] = "connect"
  /\ \E i \in 1..Len(RemoteReplies) :
       LET reply == RemoteReplies[i]
           c == connect(token, reply) IN
         /\ token' = c.token
         /\ rpc' = [rpc EXCEPT ![t].login = reply, ![t].connected = Val(c.ok)]
         /\ sent' = [sent EXCEPT ![t] =
              Append(@, Payload(rpc[t].method, rpc[t].params, c.token))]
  /\ pc' = [pc EXCEPT ![t] = "call_rpc"]
  /\ UNCHANGED <<loop, frame, ret, files, dirs, environ, host>>

\* The command request ends with reply: call_rpc returns to its caller.
RpcReply(t) ==
  /\ pc[t] = "call_rpc"
  /\ \E i \in 1..Len(RemoteReplies) :
       LET reply == RemoteReplies[i] IN
         rpc' = [rpc EXCEPT ![t].response = reply, ![t].ret = RpcReturn(reply),
                            ![t].login = NotSet]
  /\ pc' = [pc EXCEPT ![t] = rpc[t].cont]
  /\ UNCHANGED <<token, loop, frame, sent, ret, files, dirs, environ, host>>

(***************************************************************************)
(* tools.py: the arguments the tools are invoked with.                     *)
(***************************************************************************)
\* additional_options, as token sequences.
AdditionalOptions ==
  << <<>>,
     << P("{"), JStr("LPORT"), P(":"), JStr("5555"), P("}") >>,
     << P("{"), JStr("RHOSTS"), P(":"), JStr("10.0.0.7"), P(","),
        JStr("VERBOSE"), P(":"), JStr("true"), P("}") >>,
     << P("{"), P("}") >>,
     << P("{"), JStr("LPORT"), P(":"), JStr("5555") >>,
     << P("{"), P("}"), P("}") >>,
     << P("["), P("]") >>,
     << P("["), P("["), JStr("VERBOSE"), P(","), JStr("true"), P("]"), P("]") >>,
     << P("["), JNum(5), P("]") >>,
     << JNull >>,
     << JStr("x") >> >>

RunExploitArgs ==
  << [exploit_name |-> "exploit/windows/smb/ms17_010", rhosts |-> "10.0.0.5",
      payload |-> "windows/meterpreter/reverse_tcp", lhost |-> "10.0.0.9", lport |-> 4444],
     [exploit_name |-> "exploit/windows/smb/ms17_010", rhosts |-> "10.0.0.5",
      payload |-> "", lhost |-> "", lport |-> 0] >>

\* str(lport)
Str(n) == ToString(n)

\* run_exploit, lines 77-83: the options of the named parameters.
NamedOptions(a) ==
  ("RHOSTS" :> JStr(a.rhosts))
    @@ (IF a.payload # "" THEN ("PAYLOAD" :> JStr(a.payload)) ELSE <<>>)
    @@ (IF a.lhost # "" THEN ("LHOST" :> JStr(a.lhost)) ELSE <<>>)
    @@ (IF a.lport # 0 THEN ("LPORT" :> JStr(Str(a.lport))) ELSE <<>>)

\* MergeOptions with the handler of utils.parse_options: an unparseable
\* string counts as no options.
MergeOptionsLenient(options, additional_options) ==
  IF Len(additional_options) = 0 THEN Val(options)
  ELSE LET extra_opts == JsonLoads(additional_options) IN
    IF Raised(extra_opts) THEN Val(options) ELSE DictUpdate(options, extra_opts.val)

\* lines 85-88 / 149-152: options.update(json.loads(additional_options)).
MergeOptions(options, additional_options) ==
  IF Len(additional_options) = 0 THEN Val(options)
  ELSE LET extra_opts == JsonLoads(additional_options) IN
    IF Raised(extra_opts) THEN extra_opts ELSE DictUpdate(options, extra_opts.val)

\* What a tool returns when exception e is raised inside its try block, if no
\* handler caught it: the exception leaves the tool.
Uncaught(e) == [raised |-> e]

\* except Exception as e: the envelope with str(e).
Caught(e) == [status |-> "error", message |-> e]

\* lines 89-93 / 153-157, then the outer handler.
ErrorResult(merged) ==
  IF merged.raise = "JSONDecodeError"
    THEN [status |-> "error", message |-> "Invalid JSON in additional_options"]
    ELSE Caught(merged.raise)

(***************************************************************************)
(* run_exploit.                                                            *)
(***************************************************************************)
\* line 102: whether the check result stops the run.
CheckFailed(check_result) ==
  LET has == PyIn("result", check_result) IN
    IF Raised(has) THEN has
    ELSE IF ~has.val THEN Val(FALSE)
    ELSE LET inner == PyGetItem(check_result, "result") IN
      IF Raised(inner) THEN inner
      ELSE LET st == PyGet(inner.val, "status", JNull) IN
        IF Raised(st) THEN st ELSE Val(st.val # JStr("exploitable"))

ModuleParams(name, options) == [module |-> name, options |-> options]

\* run_exploit with the check made whatever run_check.
run_exploitAlwaysCheck(t) ==
  /\ pc[t] = "queued"
  /\ loop = 0
  /\ loop' = t
  /\ \E a \in 1..Len(RunExploitArgs), o \in 1..Len(AdditionalOptions), run_check \in BOOLEAN :
       LET args == RunExploitArgs[a]
           merged == MergeOptions(NamedOptions(args), AdditionalOptions[o]) IN
         /\ frame' = [frame EXCEPT ![t] =
              [tool |-> "run_exploit", args |-> args,
               additional_options |-> AdditionalOptions[o], run_check |-> run_check,
               options |-> IF Raised(merged) THEN NotSet ELSE merged.val,
               check_result |-> NotSet]]
         /\ IF Raised(merged) THEN Finish(t, ErrorResult(merged), <<>>)
            ELSE CallRpc(t, "module.check",
                         ModuleParams(args.exploit_name, merged.val),
                         "run_exploit_checked", <<>>)
  /\ UNCHANGED <<files, dirs, environ, host>>

\* lines 75-100, 110: up to the first request.
run_exploit(t) ==
  /\ pc[t] = "queued"
  /\ loop = 0
  /\ loop' = t
  /\ \E a \in 1..Len(RunExploitArgs), o \in 1..Len(AdditionalOptions), run_check \in BOOLEAN :
       LET args == RunExploitArgs[a]
           merged == MergeOptions(NamedOptions(args), AdditionalOptions[o]) IN
         /\ frame' = [frame EXCEPT ![t] =
              [tool |-> "run_exploit", args |-> args,
               additional_options |-> AdditionalOptions[o], run_check |-> run_check,
               options |-> IF Raised(merged) THEN NotSet ELSE merged.val,
               check_result |-> NotSet]]
         /\ IF Raised(merged) THEN Finish(t, ErrorResult(merged), <<>>)
            ELSE IF run_check
              THEN CallRpc(t, "module.check",
                           ModuleParams(args.exploit_name, merged.val),
                           "run_exploit_checked", <<>>)
              ELSE CallRpc(t, "module.execute",
                           ModuleParams(args.exploit_name, merged.val),
                           "run_exploit_executed", <<>>)
  /\ UNCHANGED <<files, dirs, environ, host>>

\* lines 102-110: the check gate, then execute_exploit.
run_exploit_checked(t) ==
  /\ pc[t] = "run_exploit_checked"
  /\ LET check_result == rpc[t].ret
         failed == CheckFailed(check_result) IN
       /\ frame' = [frame EXCEPT ![t].check_result = check_result]
       /\ IF Raised(failed)
            THEN Finish(t, Caught(failed.raise), sent[t])
          ELSE IF failed.val
            THEN Finish(t, [status |-> "check_failed",
                            message |-> "Target is not vulnerable or check failed",
                            check_result |-> check_result], sent[t])
          ELSE CallRpc(t, "module.execute",
                       ModuleParams(frame[t].args.exploit_name, frame[t].options),
                       "run_exploit_executed", sent[t])
  /\ UNCHANGED <<loop, files, dirs, environ, host>>

\* lines 110-117.
run_exploit_executed(t) ==
  /\ pc[t] = "run_exploit_executed"
  /\ Finish(t, [status |-> "success", exploit |-> frame[t].args.exploit_name,
                target |-> frame[t].args.rhosts, result |-> rpc[t].ret], sent[t])
  /\ UNCHANGED <<loop, frame, files, dirs, environ, host>>

(***************************************************************************)
(* list_sessions (tools.py) over MetasploitClient.list_sessions.           *)
(***************************************************************************)
RECURSIVE SeqOfSet(_)

\* The keys of a dict in a fixed order.
SeqOfSet(S) ==
  IF S = {} THEN <<>>
  ELSE LET k == CHOOSE x \in S : TRUE IN <<k>> \o SeqOfSet(S \ {k})

\* {"id": k, **v}: the keys of v are written after "id".
SessionEntry(k, v) == JDict(v.dict @@ ("id" :> JStr(k)))

\* client.py lines 125-127 on the value call_rpc returned.
ClientListSessions(result) ==
  LET has == PyIn("result", result) IN
    IF Raised(has) THEN has
    ELSE IF ~has.val THEN Val(<<>>)
    ELSE LET inner == PyGetItem(result, "result") IN
      IF Raised(inner) THEN inner
      ELSE IF ~IsDict(inner.val) THEN Raise("AttributeError")
      ELSE IF \E k \in DOMAIN inner.val.dict : ~IsDict(inner.val.dict[k])
        THEN Raise("TypeError")
      ELSE LET keys == SeqOfSet(DOMAIN inner.val.dict) IN
        Val([i \in 1..Len(keys) |-> SessionEntry(keys[i], inner.val.dict[keys[i]])])

list_sessions(t) ==
  /\ pc[t] = "queued"
  /\ loop = 0
  /\ loop' = t
  /\ frame' = [frame EXCEPT ![t] = [tool |-> "list_sessions"]]
  /\ CallRpc(t, "session.list", <<>>, "list_sessions_done", <<>>)
  /\ UNCHANGED <<files, dirs, environ, host>>

list_sessions_done(t) ==
  /\ pc[t] = "list_sessions_done"
  /\ LET sessions == ClientListSessions(rpc[t].ret) IN
       /\ frame' = [frame EXCEPT ![t] = [tool |-> "list_sessions", result |-> rpc[t].ret]]
       /\ IF Raised(sessions)
            THEN Finish(t, Caught(sessions.raise), sent[t])
            ELSE Finish(t, [status |-> "success", count |-> Len(sessions.val),
                            sessions |-> sessions.val], sent[t])
  /\ UNCHANGED <<loop, files, dirs, environ, host>>

(***************************************************************************)
(* generate_payload.  payload_name is a sequence of characters (a run of   *)
(* characters other than '/' stands as one element), so that replace and   *)
(* the path are computed.                                                  *)
(***************************************************************************)
GeneratePayloadArgs ==
  << [payload_name |-> <<"windows", "/", "meterpreter", "/", "reverse_tcp">>,
      format_type |-> "exe", lhost |-> "10.0.0.9", lport |-> 4444],
     [payload_name |-> <<"windows", "/", "meterpreter", "/", "reverse_tcp">>,
      format_type |-> "exe", lhost |-> "", lport |-> 0] >>

\* os.getenv("PAYLOAD_SAVE_DIR", "./payloads")
save_dir == <<".", "/", "payloads">>

\* s.replace(old, new)
Replace(s, old, new) == [i \in 1..Len(s) |-> IF s[i] = old THEN new ELSE s[i]]

\* lines 166-167: os.path.join(save_dir, filename).
Filepath(payload_name, format_type) ==
  save_dir \o <<"/">> \o Replace(payload_name, "/", "_") \o <<".", format_type>>

\* lines 143-147.
PayloadOptions(a) ==
  (IF a.lhost # "" THEN ("LHOST" :> JStr(a.lhost)) ELSE <<>>)
    @@ (IF a.lport # 0 THEN ("LPORT" :> JStr(Str(a.lport))) ELSE <<>>)

\* The default b"" of .get("data", b""): the only bytes value there is.
EmptyBytes == [bytes |-> ""]

\* f.write(data) on a file opened "wb": only bytes are written.
FileWrite(data) == IF data = EmptyBytes THEN Val(data) ELSE Raise("TypeError")

\* lines 162-184 on the value call_rpc returned: the envelope and the file
\* system after.  open(filepath, "wb") creates or truncates the file before
\* result["result"].get("data", b"") is evaluated and written.
SavePayload(result, a, fs, ds) ==
  LET has == PyIn("result", result)
      filepath == Filepath(a.payload_name, a.format_type)
      opened == (filepath :> EmptyBytes) @@ fs
      made == ds \cup {save_dir} IN
    IF Raised(has)
      THEN [env |-> Caught(has.raise), files |-> fs, dirs |-> ds]
    ELSE IF ~has.val
      THEN [env |-> [status |-> "error", message |-> "Payload generation failed",
                     result |-> result], files |-> fs, dirs |-> ds]
    ELSE LET inner == PyGetItem(result, "result") IN
      IF Raised(inner)
        THEN [env |-> Caught(inner.raise), files |-> opened, dirs |-> made]
      ELSE LET data == PyGet(inner.val, "data", EmptyBytes) IN
        IF Raised(data)
          THEN [env |-> Caught(data.raise), files |-> opened, dirs |-> made]
        ELSE LET written == FileWrite(data.val) IN
          IF Raised(written)
            THEN [env |-> Caught(written.raise), files |-> opened, dirs |-> made]
            ELSE [env |-> [status |-> "success", payload |-> a.payload_name,
                           format |-> a.format_type, saved_to |-> filepath,
                           result |-> result],
                  files |-> (filepath :> written.val) @@ fs, dirs |-> made]

\* lines 142-159, with MetasploitClient.generate_payload.
generate_payload(t) ==
  /\ pc[t] = "queued"
  /\ loop = 0
  /\ loop' = t
  /\ \E a \in 1..Len(GeneratePayloadArgs), o \in 1..Len(AdditionalOptions) :
       LET args == GeneratePayloadArgs[a]
           merged == MergeOptions(PayloadOptions(args), AdditionalOptions[o]) IN
         /\ frame' = [frame EXCEPT ![t] =
              [tool |-> "generate_payload", args |-> args,
               additional_options |-> AdditionalOptions[o],
               options |-> IF Raised(merged) THEN NotSet ELSE merged.val,
               files |-> files, dirs |-> dirs, result |-> NotSet]]
         /\ IF Raised(merged) THEN Finish(t, ErrorResult(merged), <<>>)
            ELSE CallRpc(t, "module.execute",
                         [module |-> args.payload_name, options |-> merged.val,
                          datastore |-> [Format |-> args.format_type]],
                         "generate_payload_done", <<>>)
  /\ UNCHANGED <<files, dirs, environ, host>>

\* lines 161-184.
generate_payload_done(t) ==
  /\ pc[t] = "generate_payload_done"
  /\ LET saved == SavePayload(rpc[t].ret, frame[t].args, files, dirs) IN
       /\ files' = saved.files
       /\ dirs' = saved.dirs
       /\ frame' = [frame EXCEPT ![t].result = rpc[t].ret]
       /\ Finish(t, saved.env, sent[t])
  /\ UNCHANGED <<loop, environ, host>>

(***************************************************************************)
(* list_exploits and list_payloads.  Module names and filters are          *)
(* sequences of characters.  A key of a dict reply, when the list          *)
(* comprehension iterates a dict, is one element: a run of lower-case      *)
(* characters that holds none of the filters.                              *)
(***************************************************************************)
Upper == <<"B", "I", "M", "N", "S", "W", "X">>

Lowered == <<"b", "i", "m", "n", "s", "w", "x">>

LowerChar(c) ==
  IF \E i \in 1..Len(Upper) : Upper[i] = c
    THEN Lowered[CHOOSE i \in 1..Len(Upper) : Upper[i] = c]
    ELSE c

\* s.lower()
Lower(s) == [i \in 1..Len(s) |-> LowerChar(s[i])]

\* sub in s
Contains(sub, s) ==
  \E k \in 0..(Len(s) - Len(sub)) : \A i \in 1..Len(sub) : s[k + i] = sub[i]

\* The elements a for loop takes from v.
PyIter(v) ==
  IF IsList(v) THEN Val(v.list)
  ELSE IF IsDict(v) THEN
    LET keys == SeqOfSet(DOMAIN v.dict) IN Val([i \in 1..Len(keys) |-> JText(<<keys[i]>>)])
  ELSE Raise("TypeError")

RECURSIVE SelectSeq2(_, _, _)

\* The elements of q that hold term, in the order of q.
SelectSeq2(q, term, i) ==
  IF i > Len(q) THEN <<>>
  ELSE (IF Contains(Lower(term), Lower(q[i].text)) THEN <<q[i]>> ELSE <<>>)
         \o SelectSeq2(q, term, i + 1)

RECURSIVE SelectExact(_, _, _)

\* The elements of q that hold term as it is written, in the order of q.
SelectExact(q, term, i) ==
  IF i > Len(q) THEN <<>>
  ELSE (IF Contains(term, q[i].text) THEN <<q[i]>> ELSE <<>>) \o SelectExact(q, term, i + 1)

\* The filter without lower(): [e for e in names if term in e].
FilterCaseSensitive(names, term) ==
  IF Raised(names) \/ Len(term) = 0 THEN names
  ELSE LET it == PyIter(names.val) IN
    IF Raised(it) THEN it
    ELSE IF \E i \in 1..Len(it.val) : ~IsText(it.val[i]) THEN Raise("AttributeError")
    ELSE Val(JList(SelectExact(it.val, term, 1)))

\* [e for e in names if term.lower() in e.lower()], or names when term is "".
Filter(names, term) ==
  IF Raised(names) \/ Len(term) = 0 THEN names
  ELSE LET it == PyIter(names.val) IN
    IF Raised(it) THEN it
    ELSE IF \E i \in 1..Len(it.val) : ~IsText(it.val[i]) THEN Raise("AttributeError")
    ELSE Val(JList(SelectSeq2(it.val, term, 1)))

\* client.py lines 85-91 and 95-103 on the value call_rpc returned.
ClientList(result, terms) ==
  LET has == PyIn("result", result) IN
    IF Raised(has) THEN has
    ELSE IF ~has.val THEN Val(JList(<<>>))
    ELSE Filter(Filter(PyGetItem(result, "result"), terms[1]), terms[2])

Limit == 50

\* The envelope of list_exploits and list_payloads: len(names), names[:50].
ListEnvelope(names, field) ==
  IF Raised(names) THEN Caught(names.raise)
  ELSE IF IsList(names.val) THEN
    (field :> SubSeq(names.val.list, 1, IF Len(names.val.list) < Limit
                                         THEN Len(names.val.list) ELSE Limit))
      @@ [status |-> "success", count |-> Len(names.val.list)]
  ELSE Caught("TypeError")

SearchTerms == << <<>>, <<"S", "m", "b">> >>

PayloadFilters ==
  << << <<>>, <<>> >>, << <<"w", "i", "n">>, <<>> >>, << <<"W", "i", "n">>, <<"x", "6", "4">> >> >>

list_exploits(t) ==
  /\ pc[t] = "queued"
  /\ loop = 0
  /\ loop' = t
  /\ \E i \in 1..Len(SearchTerms) :
       frame' = [frame EXCEPT ![t] =
         [tool |-> "list_exploits", terms |-> <<SearchTerms[i], <<>> >>, result |-> NotSet]]
  /\ CallRpc(t, "module.exploits", <<>>, "list_done", <<>>)
  /\ UNCHANGED <<files, dirs, environ, host>>

list_payloads(t) ==
  /\ pc[t] = "queued"
  /\ loop = 0
  /\ loop' = t
  /\ \E i \in 1..Len(PayloadFilters) :
       frame' = [frame EXCEPT ![t] =
         [tool |-> "list_payloads", terms |-> PayloadFilters[i], result |-> NotSet]]
  /\ CallRpc(t, "module.payloads", <<>>, "list_done", <<>>)
  /\ UNCHANGED <<files, dirs, environ, host>>

\* tools.py lines 21-28 and 42-49.
list_done(t) ==
  /\ pc[t] = "list_done"
  /\ frame' = [frame EXCEPT ![t].result = rpc[t].ret]
  /\ Finish(t, ListEnvelope(ClientList(rpc[t].ret, frame[t].terms),
                            IF frame[t].tool = "list_exploits" THEN "exploits" ELSE "payloads"),
            sent[t])
  /\ UNCHANGED <<loop, files, dirs, environ, host>>

(***************************************************************************)
(* send_session_command, kill_session, get_module_info: one call_rpc, its  *)
(* value returned in the envelope.                                         *)
(***************************************************************************)
SessionIds == {1}

Commands == {"whoami"}

ModuleNames == {"exploit/windows/smb/ms17_010"}

send_session_command(t) ==
  /\ pc[t] = "queued"
  /\ loop = 0
  /\ loop' = t
  /\ \E session_id \in SessionIds, command \in Commands :
       /\ frame' = [frame EXCEPT ![t] =
            [tool |-> "send_session_command", session_id |-> session_id, command |-> command]]
       /\ CallRpc(t, "session.shell_write", [id |-> session_id, command |-> command],
                  "action_done", <<>>)
  /\ UNCHANGED <<files, dirs, environ, host>>

kill_session(t) ==
  /\ pc[t] = "queued"
  /\ loop = 0
  /\ loop' = t
  /\ \E session_id \in SessionIds :
       /\ frame' = [frame EXCEPT ![t] = [tool |-> "kill_session", session_id |-> session_id]]
       /\ CallRpc(t, "session.stop", [id |-> session_id], "action_done", <<>>)
  /\ UNCHANGED <<files, dirs, environ, host>>

get_module_info(t) ==
  /\ pc[t] = "queued"
  /\ loop = 0
  /\ loop' = t
  /\ \E module_name \in ModuleNames :
       /\ frame' = [frame EXCEPT ![t] = [tool |-> "get_module_info", module_name |-> module_name]]
       /\ CallRpc(t, "module.info", [module |-> module_name], "action_done", <<>>)
  /\ UNCHANGED <<files, dirs, environ, host>>

\* The envelope of the three tools if an Error reply were reported as status
\* "error", as the tools with a failure branch do.
ActionEnvelopeErrorSurfaced(f, result) ==
  IF IsDict(result) /\ "error" \in DOMAIN result.dict
    THEN [status |-> "error", message |-> "RPC failed", result |-> result]
    ELSE [status |-> "success", result |-> result, info |-> result]

\* The success envelope of the three tools.
ActionEnvelope(f, result) ==
  IF f.tool = "send_session_command"
    THEN [status |-> "success", session_id |-> f.session_id, command |-> f.command,
          result |-> result]
  ELSE IF f.tool = "kill_session"
    THEN [status |-> "success", session_id |-> f.session_id, result |-> result]
  ELSE [status |-> "success", module |-> f.module_name, info |-> result]

action_done(t) ==
  /\ pc[t] = "action_done"
  /\ Finish(t, ActionEnvelope(frame[t], rpc[t].ret), sent[t])
  /\ UNCHANGED <<loop, frame, files, dirs, environ, host>>

Next ==
  \/ main
  \/ \E t \in Tasks :
       \/ Invoke(t)
       \/ Return(t)
       \/ ConnectReply(t)
       \/ RpcReply(t)
       \/ run_exploit(t)
       \/ run_exploit_checked(t)
       \/ run_exploit_executed(t)
       \/ list_sessions(t)
       \/ list_sessions_done(t)
       \/ generate_payload(t)
       \/ generate_payload_done(t)
       \/ list_exploits(t)
       \/ list_payloads(t)
       \/ list_done(t)
       \/ send_session_command(t)
       \/ kill_session(t)
       \/ get_module_info(t)
       \/ action_done(t)

Spec == Init /\ [][Next]_vars

(***************************************************************************)
(* Properties.                                                             *)
(***************************************************************************)
\* The methods of the requests task t has issued in its invocation.
Issued(t, method) == \E i \in 1..Len(sent[t]) : sent[t][i].method = method

\* The check reply carried a result whose status is exactly "exploitable".
Exploitable(check_result) ==
  /\ IsDict(check_result)
  /\ "result" \in DOMAIN check_result.dict
  /\ IsDict(check_result.dict["result"])
  /\ "status" \in DOMAIN check_result.dict["result"].dict
  /\ check_result.dict["result"].dict["status"] = JStr("exploitable")

RunsCheck(t) == frame[t].tool = "run_exploit" /\ frame[t].run_check

\* C1: in a run_exploit invocation with run_check, module.execute is issued
\* only if the module.check reply carried a result whose status is exactly
\* "exploitable"; after any other check outcome the tool returns status
\* "check_failed" and module.execute is never issued.
C1_CheckGate ==
  \A t \in Tasks :
    RunsCheck(t) =>
      /\ Issued(t, "module.execute") => Exploitable(frame[t].check_result)
      /\ (pc[t] = "done" /\ frame[t].check_result # NotSet
            /\ ~Exploitable(frame[t].check_result))
           => ret[t].status = "check_failed"

\* The tools that take additional_options.
TakesOptions(t) == frame[t].tool \in {"run_exploit", "generate_payload"}

\* The string is a valid JSON object.
IsJsonObject(toks) == ~Raised(JsonLoads(toks)) /\ IsDict(JsonLoads(toks).val)

\* The invocation of t ended with status "error" before any request.
RejectedBeforeRpc(t) == pc[t] = "done" /\ ret[t].status = "error" /\ sent[t] = <<>>

\* C2 (as claimed): an additional_options string that is non-empty and not a
\* valid JSON object ends the invocation with status "error" and no request.
C2_NonObjectRejected ==
  \A t \in Tasks :
    (TakesOptions(t) /\ Len(frame[t].additional_options) > 0
       /\ ~IsJsonObject(frame[t].additional_options))
      => RejectedBeforeRpc(t)

\* C2 (amended): an additional_options string that is non-empty and not
\* syntactically valid JSON ends the invocation with status "error", message
\* "Invalid JSON in additional_options", and no request; so does, with status
\* "error", a JSON value that dict.update rejects.
C2_InvalidJsonRejected ==
  \A t \in Tasks :
    (TakesOptions(t) /\ Len(frame[t].additional_options) > 0) =>
      LET v == JsonLoads(frame[t].additional_options) IN
        /\ Raised(v) =>
             /\ RejectedBeforeRpc(t)
             /\ ret[t].message = "Invalid JSON in additional_options"
        /\ (~Raised(v) /\ Raised(DictUpdate(<<>>, v.val))) => RejectedBeforeRpc(t)

C2_Witness ==
  \E t \in Tasks :
    /\ frame[t].tool = "generate_payload"
    /\ Len(frame[t].additional_options) > 0
    /\ Raised(JsonLoads(frame[t].additional_options))
    /\ RejectedBeforeRpc(t)

\* call_rpc of task t has returned (its value is in rpc[t].ret).
Returned(t) == rpc[t].method # "none" /\ rpc[t].ret # NotSet

IsErrorEnvelope(v) == IsDict(v) /\ "error" \in DOMAIN v.dict

\* C3: when call_rpc is entered without a token and connect() fails, call_rpc
\* returns an Error envelope and the token is still absent.
C3_AuthFailureIsError ==
  \A t \in Tasks :
    (Returned(t) /\ ~Truthy(rpc[t].entry) /\ rpc[t].connected = Val(FALSE))
      => IsErrorEnvelope(rpc[t].ret) /\ ~Truthy(token)

\* The remote reply to session.list is a mapping from ids to attribute mappings.
IsSessionMap(result) ==
  /\ IsDict(result)
  /\ "result" \in DOMAIN result.dict
  /\ IsDict(result.dict["result"])
  /\ \A k \in DOMAIN result.dict["result"].dict : IsDict(result.dict["result"].dict[k])

\* C4: list_sessions returns one entry per key of the remote mapping; the "id"
\* of every entry is that key, also when the attributes hold an "id"; the other
\* attributes are carried over.
C4_IdFieldWins ==
  \A t \in Tasks :
    (pc[t] = "done" /\ frame[t].tool = "list_sessions" /\ IsSessionMap(frame[t].result)) =>
      LET remote == frame[t].result.dict["result"].dict IN
        /\ ret[t].status = "success"
        /\ Len(ret[t].sessions) = Cardinality(DOMAIN remote)
        /\ \A k \in DOMAIN remote :
             \E i \in 1..Len(ret[t].sessions) :
               /\ ret[t].sessions[i].dict["id"] = JStr(k)
               /\ \A a \in DOMAIN remote[k].dict \ {"id"} :
                    /\ a \in DOMAIN ret[t].sessions[i].dict
                    /\ ret[t].sessions[i].dict[a] = remote[k].dict[a]

\* The options of the named parameters of the invocation of t.
Named(t) ==
  IF frame[t].tool = "run_exploit" THEN NamedOptions(frame[t].args)
  ELSE PayloadOptions(frame[t].args)

\* The caller's override mapping: the object additional_options holds.
Overrides(t) ==
  IF Len(frame[t].additional_options) = 0 THEN <<>>
  ELSE JsonLoads(frame[t].additional_options).val.dict

\* C5: in every module.check and module.execute request of run_exploit and
\* generate_payload, every key of the override mapping has the override's
\* value, every other key of the named parameters has the parameter's value,
\* and there is no other key.
C5_OverrideWins ==
  \A t \in Tasks :
    (TakesOptions(t)
       /\ (Len(frame[t].additional_options) = 0 \/ IsJsonObject(frame[t].additional_options))) =>
      \A i \in 1..Len(sent[t]) :
        sent[t][i].method \in {"module.check", "module.execute"} =>
          LET options == sent[t][i].params.options IN
            /\ DOMAIN options = DOMAIN Named(t) \cup DOMAIN Overrides(t)
            /\ \A k \in DOMAIN Overrides(t) : options[k] = Overrides(t)[k]
            /\ \A k \in DOMAIN Named(t) \ DOMAIN Overrides(t) : options[k] = Named(t)[k]

\* An explicit lport of 4444 is replaced by the override "5555" in the request.
C5_Witness ==
  \E t \in Tasks :
    /\ frame[t].tool = "run_exploit"
    /\ frame[t].args.lport = 4444
    /\ Issued(t, "module.execute")
    /\ \E i \in 1..Len(sent[t]) :
         /\ sent[t][i].method = "module.execute"
         /\ sent[t][i].params.options["LPORT"] = JStr("5555")

\* The places of a running task: each is the guard of one action.
StepLabels ==
  {"connect", "call_rpc", "run_exploit_checked", "run_exploit_executed",
   "list_sessions_done", "generate_payload_done", "list_done", "action_done"}

\* C6: every tool invocation ends by returning an envelope whose status is
\* "success", "error" or "check_failed", whatever the remote replies and
\* whatever is raised inside; no exception leaves a tool, and an invocation
\* that has not returned can take its next step.
C6_AlwaysEnvelope ==
  \A t \in Tasks :
    /\ pc[t] = "done" =>
         /\ "status" \in DOMAIN ret[t]
         /\ ret[t].status \in {"success", "error", "check_failed"}
    /\ (loop = t /\ pc[t] # "done") => pc[t] \in StepLabels

\* An exception raised inside a tool (result is None in the check reply) ends
\* in an error envelope.
C6_Witness ==
  \E t \in Tasks :
    /\ pc[t] = "done"
    /\ frame[t].tool = "run_exploit"
    /\ frame[t].check_result = Result(JNull)
    /\ ret[t] = [status |-> "error", message |-> "AttributeError"]

\* connect() of task t has just returned (call_rpc has posted its request).
Connected(t) == rpc[t].method # "none" /\ rpc[t].login # NotSet

\* The login reply is a 200 reply whose result carries a token field.
HasTokenField(reply) ==
  /\ ~IsTransportError(reply)
  /\ reply.status = 200
  /\ reply.body # Malformed
  /\ IsDict(reply.body)
  /\ "result" \in DOMAIN reply.body.dict
  /\ IsDict(reply.body.dict["result"])
  /\ "token" \in DOMAIN reply.body.dict["result"].dict

\* C7 (as claimed): connect() returns success exactly when the session holds
\* afterwards a non-empty token issued by that login reply.
C7_SuccessIffNonEmptyToken ==
  \A t \in Tasks :
    Connected(t) =>
      (rpc[t].connected = Val(TRUE)
         <=> (Truthy(token) /\ HasTokenField(rpc[t].login)
                /\ token = rpc[t].login.body.dict["result"].dict["token"]))

\* C7 (amended): connect() returns success exactly when the login reply is a
\* 200 reply whose result carries a token field; it then holds the value of
\* that field as the token, even an empty one; otherwise it returns failure
\* and the token is as it was at entry, absent.
C7_SuccessIffTokenField ==
  \A t \in Tasks :
    Connected(t) =>
      /\ rpc[t].connected = Val(HasTokenField(rpc[t].login))
      /\ HasTokenField(rpc[t].login)
           => token = rpc[t].login.body.dict["result"].dict["token"]
      /\ ~HasTokenField(rpc[t].login) => (token = rpc[t].entry /\ ~Truthy(token))

C7_Witness ==
  \E t \in Tasks :
    /\ Connected(t)
    /\ rpc[t].login = Http(200, Result(JDict([token |-> JStr("t1")])))
    /\ rpc[t].connected = Val(TRUE)
    /\ token = JStr("t1")

\* The classification of the reply to the command request, with the status
\* codes in success that count as success.
Classified(t, success) ==
  LET reply == rpc[t].response IN
    /\ IsTransportError(reply) => rpc[t].ret = JDict([error |-> JStr(reply.exc)])
    /\ (~IsTransportError(reply) /\ reply.status \notin success)
         => rpc[t].ret = JDict([error |-> JStr("HTTP " \o ToString(reply.status))])
    /\ (~IsTransportError(reply) /\ reply.status \in success /\ reply.body # Malformed)
         => rpc[t].ret = reply.body

\* C8 (as claimed): a transport failure yields an Error with the transport
\* detail, every non-2xx status Error "HTTP <status>", every 2xx status with a
\* parseable body that body unchanged.
C8_Every2xxIsResult == \A t \in Tasks : Returned(t) => Classified(t, 200..299)

\* C8 (amended): a transport failure yields an Error with the transport detail,
\* every status other than 200 (the other 2xx too) Error "HTTP <status>",
\* status 200 with a parseable body that body unchanged, a nested error too.
C8_Only200IsResult == \A t \in Tasks : Returned(t) => Classified(t, {200})

C8_Witness ==
  \E t \in Tasks :
    /\ Returned(t)
    /\ rpc[t].response = Http(200, JDict([error |-> JStr("Invalid Authentication Token")]))
    /\ rpc[t].ret = JDict([error |-> JStr("Invalid Authentication Token")])

\* The remote service rejected the request: 401, or the error of an invalid token.
Rejects(reply) ==
  /\ ~IsTransportError(reply)
  /\ \/ reply.status = 401
     \/ reply.body = JDict([error |-> JStr("Invalid Authentication Token")])

\* The request call_rpc of task t posted for its method.
CommandRequest(t) == sent[t][Len(sent[t])]

\* C9: when the remote service rejects a request made with the token held
\* at the entry of call_rpc, the token is cleared or replaced when call_rpc
\* returns, so that the next call_rpc finds no stale token and authenticates.
C9_RejectedTokenDropped ==
  \A t \in Tasks :
    (Returned(t) /\ Truthy(rpc[t].entry) /\ "token" \in DOMAIN CommandRequest(t)
       /\ CommandRequest(t).token = rpc[t].entry /\ Rejects(rpc[t].response))
      => token # rpc[t].entry

\* The requests call_rpc of task t has posted since it was entered.
Requests(t) == SubSeq(sent[t], rpc[t].base + 1, Len(sent[t]))

\* C10: a call_rpc posts one login request when it is entered without a token
\* and none when a token is held, then exactly one request for its method,
\* whatever the replies.
C10_OneLoginOneCommand ==
  \A t \in Tasks :
    rpc[t].method # "none" =>
      LET reqs == Requests(t)
          methods == [i \in 1..Len(reqs) |-> reqs[i].method] IN
        IF pc[t] = "connect" THEN methods = <<"login">> /\ ~Truthy(rpc[t].entry)
        ELSE IF Truthy(rpc[t].entry) THEN methods = <<rpc[t].method>>
        ELSE methods = <<"login", rpc[t].method>>

\* A call_rpc entered without a token whose login failed has returned.
C10_Witness ==
  \E t \in Tasks :
    /\ Returned(t)
    /\ ~Truthy(rpc[t].entry)
    /\ rpc[t].connected = Val(FALSE)
    /\ Len(Requests(t)) = 2

\* A tool invocation of task t starts: any of the tools.
Start(t) ==
  \/ run_exploit(t)
  \/ list_sessions(t)
  \/ generate_payload(t)
  \/ list_exploits(t)
  \/ list_payloads(t)
  \/ send_session_command(t)
  \/ kill_session(t)
  \/ get_module_info(t)

\* Task t waits for the reply to a request it handed to session.post.
Waiting(t) == pc[t] \in {"connect", "call_rpc"}

\* C11: while one tool call waits for the reply of its RPC round trip, another
\* tool call that was invoked concurrently can start and issue its own request
\* before that reply arrives: the wait of one call blocks no other call.
C11_WaitDoesNotBlock ==
  \A t \in Tasks : \A u \in Tasks \ {t} :
    (Waiting(t) /\ pc[u] = "queued") => ENABLED Start(u)

\* C12: the token changes only at the return of a connect() whose login reply
\* was successful, and then to the token of that reply; so the token, absent
\* at construction, is always absent or a token a successful login returned,
\* a failed login clears and replaces nothing, and a later successful login
\* overwrites it.
C12_TokenOnlyFromLogin ==
  [][token' # token =>
       \E t \in Tasks :
         /\ pc[t] = "connect"
         /\ pc'[t] = "call_rpc"
         /\ HasTokenField(rpc'[t].login)
         /\ token' = rpc'[t].login.body.dict["result"].dict["token"]]_vars

\* A login of a later call failed and the (empty) token an earlier call had
\* stored is still held.
C12_Witness ==
  \E t \in Tasks :
    /\ Connected(t)
    /\ rpc[t].entry = JStr("")
    /\ rpc[t].connected = Val(FALSE)
    /\ token = JStr("")

\* Task t has returned from generate_payload after its RPC round trip.
GenerateReturned(t) ==
  pc[t] = "done" /\ frame[t].tool = "generate_payload" /\ frame[t].result # NotSet

\* The reply carries a result with the payload data.
CarriesData(result) ==
  /\ IsDict(result)
  /\ "result" \in DOMAIN result.dict
  /\ IsDict(result.dict["result"])
  /\ "data" \in DOMAIN result.dict["result"].dict

\* <outputDir>/<payload name with '/' replaced by '_'>.<format> of the payload
\* windows/meterpreter/reverse_tcp in format exe.
ExpectedPath ==
  <<".", "/", "payloads", "/", "windows", "_", "meterpreter", "_", "reverse_tcp", ".", "exe">>

\* C13: generate_payload on a reply with no "result" field returns status
\* "error" and neither writes a file nor creates the output directory; on a
\* reply whose result carries the payload data it writes exactly one file, at
\* <outputDir>/<name with '/' replaced by '_'>.<format>, and saved_to of the
\* success envelope is exactly that path.
C13_PayloadSaved ==
  \A t \in Tasks :
    GenerateReturned(t) =>
      /\ (IsDict(frame[t].result) /\ "result" \notin DOMAIN frame[t].result.dict) =>
           /\ ret[t].status = "error"
           /\ files = frame[t].files
           /\ dirs = frame[t].dirs
      /\ CarriesData(frame[t].result) =>
           /\ ret[t].status = "success"
           /\ ret[t].saved_to = ExpectedPath
           /\ DOMAIN files = DOMAIN frame[t].files \cup {ExpectedPath}

\* Task t has returned from list_exploits or list_payloads after its round trip.
ListReturned(t) ==
  pc[t] = "done" /\ frame[t].tool \in {"list_exploits", "list_payloads"}

\* The reply is a Result that is a list of names.
IsNameList(result) ==
  /\ IsDict(result)
  /\ "result" \in DOMAIN result.dict
  /\ IsList(result.dict["result"])
  /\ \A i \in 1..Len(result.dict["result"].list) : IsText(result.dict["result"].list[i])

\* C14: MetasploitClient.list_exploits and list_payloads never raise; they
\* return an empty sequence whenever the reply is an Error or its Result is
\* not a list of names, and a non-empty sequence only from a Result list.
C14_EmptyOnMalformed ==
  \A t \in Tasks :
    ListReturned(t) =>
      LET names == ClientList(frame[t].result, frame[t].terms) IN
        IF Raised(names) THEN FALSE
        ELSE ~IsNameList(frame[t].result) => names.val = JList(<<>>)

\* C15: when MSF_RPC_PASSWORD is missing or empty at startup, the process
\* never reaches mcp.run: it is before the test or has exited with status 1,
\* no tool has been invoked and no request, login or command, has been issued.
C15_NoCredentialNoStart ==
  ~Truthy(environ) =>
    /\ host \in {"main", "exit 1"}
    /\ \A t \in Tasks : pc[t] = "idle" /\ sent[t] = <<>>
    /\ token = JNull

\* The process was started with an empty MSF_RPC_PASSWORD and has exited.
C15_Witness == environ = JStr("") /\ host = "exit 1"

\* name holds term as a substring, letters compared without regard to case.
MatchesTerm(term, name) ==
  \E k \in 0..(Len(name) - Len(term)) :
    \A i \in 1..Len(term) : LowerChar(name[k + i]) = LowerChar(term[i])

\* The names the tool of task t returned in its envelope.
ReturnedNames(t) ==
  IF frame[t].tool = "list_exploits" THEN ret[t].exploits ELSE ret[t].payloads

\* C16: list_exploits with a filter returns exactly the names of the remote
\* list that hold the filter as a case-insensitive substring, in the remote
\* order; list_payloads with a platform and an arch filter returns exactly the
\* names that hold both; an empty filter removes nothing.
C16_FilterExact ==
  \A t \in Tasks :
    (ListReturned(t) /\ IsNameList(frame[t].result)) =>
      LET remote == frame[t].result.dict["result"].list
          Keeps(e) == /\ MatchesTerm(frame[t].terms[1], e.text)
                      /\ MatchesTerm(frame[t].terms[2], e.text)
          expected == SelectSeq(remote, Keeps) IN
        /\ ret[t].status = "success"
        /\ ReturnedNames(t) = expected
        /\ ret[t].count = Len(expected)

\* list_payloads("Win", "x64") returned win/x64 alone of the three names.
C16_Witness ==
  \E t \in Tasks :
    /\ ListReturned(t)
    /\ frame[t].tool = "list_payloads"
    /\ frame[t].terms = << <<"W", "i", "n">>, <<"x", "6", "4">> >>
    /\ ret[t].status = "success"
    /\ ret[t].payloads = << JText(<<"w", "i", "n", "/", "x", "6", "4">>) >>

ActionTools == {"send_session_command", "kill_session", "get_module_info"}

\* The one command request of an action tool with the locals f.
ExpectedCommand(f) ==
  IF f.tool = "send_session_command"
    THEN [method |-> "session.shell_write",
          params |-> [id |-> f.session_id, command |-> f.command]]
  ELSE IF f.tool = "kill_session"
    THEN [method |-> "session.stop", params |-> [id |-> f.session_id]]
  ELSE [method |-> "module.info", params |-> [module |-> f.module_name]]

\* The requests of a log other than login requests.
NonLogin(log) == SelectSeq(log, LAMBDA r : r.method # "login")

\* C17: when send_session_command, kill_session or get_module_info returns,
\* its envelope has status "success" and carries under result (info for
\* get_module_info) the value call_rpc returned, a 200 body or an Error
\* envelope, unchanged; the invocation has issued exactly one command request,
\* with the method and parameters of the tool, and no other.
C17_ActionPassThrough ==
  [][\A t \in Tasks :
       (pc[t] = "action_done" /\ pc'[t] = "done") =>
         LET env == ret'[t]
             cmds == NonLogin(sent'[t])
             reply == rpc[t].response IN
           /\ frame[t].tool \in ActionTools
           /\ env.status = "success"
           /\ (IF frame[t].tool = "get_module_info" THEN env.info ELSE env.result)
                = rpc[t].ret
           /\ IF IsTransportError(reply) THEN rpc[t].ret = ErrorEnvelope(reply.exc)
              ELSE IF reply.status # 200
                THEN rpc[t].ret = ErrorEnvelope("HTTP " \o ToString(reply.status))
              ELSE reply.body # Malformed => rpc[t].ret = reply.body
           /\ Len(cmds) = 1
           /\ cmds[1].method = ExpectedCommand(frame[t]).method
           /\ cmds[1].params = ExpectedCommand(frame[t]).params]_vars

\* kill_session returned the Error envelope of a 401 reply under result.
C17_Witness ==
  \E t \in Tasks :
    /\ pc[t] = "done"
    /\ frame[t].tool = "kill_session"
    /\ ret[t].status = "success"
    /\ ret[t].result = ErrorEnvelope("HTTP 401")
    /\ sent[t][Len(sent[t])].method = "session.stop"

\* The places in the log of task t of the requests for method.
Places(t, method) == {i \in 1..Len(sent[t]) : sent[t][i].method = method}

\* C18: a run_exploit invocation issues at most one module.check and at most
\* one module.execute; with run_check its module.execute comes after its
\* module.check; without run_check it issues no module.check, and once it has
\* returned with valid options it has issued module.execute exactly once.
C18_CheckThenExecute ==
  \A t \in Tasks :
    frame[t].tool = "run_exploit" =>
      /\ Cardinality(Places(t, "module.check")) <= 1
      /\ Cardinality(Places(t, "module.execute")) <= 1
      /\ \A i \in Places(t, "module.check") : \A j \in Places(t, "module.execute") : i < j
      /\ frame[t].run_check =>
           \A j \in Places(t, "module.execute") : \E i \in Places(t, "module.check") : i < j
      /\ ~frame[t].run_check =>
           /\ Places(t, "module.check") = {}
           /\ (pc[t] = "done" /\ frame[t].options # NotSet)
                => Cardinality(Places(t, "module.execute")) = 1

\* A run without run_check has returned after its one module.execute.
C18_Witness ==
  \E t \in Tasks :
    /\ frame[t].tool = "run_exploit"
    /\ ~frame[t].run_check
    /\ pc[t] = "done"
    /\ Places(t, "module.check") = {}
    /\ Cardinality(Places(t, "module.execute")) = 1

\* C19: when generate_payload returns an envelope whose status is not
\* "success", no file has been created, truncated or overwritten during the
\* invocation: the files are as they were when it started.
C19_FailureTouchesNoFile ==
  \A t \in Tasks :
    (GenerateReturned(t) /\ ret[t].status # "success") => files = frame[t].files

\* C20: a command request that call_rpc has just issued carries exactly the
\* token held when a (non-empty) token is held and no token field otherwise;
\* no login request carries a token field.
C20_TokenAttached ==
  \A t \in Tasks :
    /\ \A i \in 1..Len(sent[t]) :
         sent[t][i].method = "login" => "token" \notin DOMAIN sent[t][i]
    /\ pc[t] = "call_rpc" =>
         LET r == CommandRequest(t) IN
           /\ r.method = rpc[t].method
           /\ IF Truthy(token) THEN "token" \in DOMAIN r /\ r.token = token
              ELSE "token" \notin DOMAIN r

\* A call entered without a token has logged in and issued its command with
\* the token of that login.
C20_Witness ==
  \E t \in Tasks :
    /\ pc[t] = "call_rpc"
    /\ ~Truthy(rpc[t].entry)
    /\ token = JStr("t2")
    /\ CommandRequest(t).token = JStr("t2")

====
